---- MODULE Spec2Model ----
(***************************************************************************)
(* Model of the OQSX_KEY lifecycle of src/oqsprov/oqsprov_keys.c:          *)
(* oqsx_key_new, oqsx_key_free, oqsx_key_up_ref,                           *)
(* oqsx_key_allocate_keymaterial, oqsx_key_fromdata, oqsx_key_gen and      *)
(* oqsx_key_parambits, run by a few caller threads on one key object.      *)
(*                                                                         *)
(* oqsx_key_free is modelled step by step (the atomic decrement, the test  *)
(* of the local result, then one step per release call) so that other      *)
(* threads interleave with a destruction in progress.  The other           *)
(* operations are single steps: the callers must give them exclusive       *)
(* access to the key.                                                      *)
(*                                                                         *)
(* Undefined behaviour (a read of the key after its storage was released,  *)
(* a second release of a resource, a read through a null algorithm handle) *)
(* is a choice between the process crashing and the step going on with the *)
(* stale contents of the memory.                                           *)
(***************************************************************************)
EXTENDS Integers, Sequences, FiniteSets, TLC

\* ------------------------------------------------------------- bounds
NumThreads == 2      \* caller threads
MaxUpRefs == 2       \* oqsx_key_up_ref calls made on the key
MaxBufs == 3         \* key buffers the allocator can hold at a time
MaxLen == 2          \* longest key a caller passes in, in bytes
MaxOps == 2          \* calls that allocate, populate or generate key material

Threads == 1 .. NumThreads
NULL == 0            \* the null pointer; the allocator's slots start at 1

\* ------------------------------------------------- external collaborators
\* The algorithm handles liboqs can construct: kind, advertised key lengths
\* and claimed NIST level (OQS_KEM / OQS_SIG, read at lines 46-47, 52-53, 172-173).
AlgTable ==
    [ kemA |-> [kind |-> "kem", length_public_key |-> 1, length_secret_key |-> 2,
                claimed_nist_level |-> 1],
      sigA |-> [kind |-> "sig", length_public_key |-> 2, length_secret_key |-> 1,
                claimed_nist_level |-> 3] ]

\* The names a caller may pass as oqs_name; "bogus" names no algorithm.
AlgNames == {"kemA", "sigA", "bogus"}

NoHandle == [kind |-> "null", length_public_key |-> 0, length_secret_key |-> 0,
             claimed_nist_level |-> 0]

\* OQS_KEM_new(oqs_name): the KEM handle of that name, or NULL.
OQS_KEM_new(name) ==
    IF name \in DOMAIN AlgTable /\ AlgTable[name].kind = "kem"
    THEN AlgTable[name] ELSE NoHandle

\* OQS_SIG_new(oqs_name): the signature handle of that name, or NULL.
OQS_SIG_new(name) ==
    IF name \in DOMAIN AlgTable /\ AlgTable[name].kind = "sig"
    THEN AlgTable[name] ELSE NoHandle

Zeros(n) == [i \in 1 .. n |-> 0]
AllZero(s) == \A i \in 1 .. Len(s) : s[i] = 0
\* The byte strings the model draws key bytes from: per length, ones
\* alternating with zeros.
Alternating(n) == [i \in 1 .. n |-> i % 2]
SampleBytes(n) == {Alternating(n)}
\* The lengths a caller passes in: empty, one byte, the longest.
SampleLens == {0, 1, MaxLen}
SampleStrings == UNION {SampleBytes(n) : n \in SampleLens}

\* ---------------------------------------------------------------- state
VARIABLES
    ndebug,      \* the build: TRUE when NDEBUG is defined (assert compiled out)
    newRet,      \* what oqsx_key_new returned: "none" (not called), "key", "null"
    newArgs,     \* the arguments and allocator outcomes of that call
    key,         \* the fields of the OQSX_KEY object
    objState,    \* the object's storage: "none", "live", "freed"
    allocd,      \* per owned resource: times allocated
    released,    \* per owned resource: times released
    relLog,      \* the resources released, in order
    heap,        \* the secure allocator's slots: free, or a live key buffer
    audit,       \* what the allocator saw: secrets left in released storage, ...
    pc,          \* per thread: where it is inside oqsx_key_free
    loc,         \* per thread: the local refcnt of its oqsx_key_free
    held,        \* per thread: references it holds
    stray,       \* a call was made by a thread holding no reference
    nUp,         \* oqsx_key_up_ref calls that reached their increment
    nFree,       \* oqsx_key_free calls that reached their decrement
    nZero,       \* times a fetch_add or fetch_sub brought the count to 0
    nOps,        \* calls made so far that allocate, populate or generate
    aborted,     \* the process was terminated (assert, or a crash)
    err,         \* the errors raised on the error queue
    last         \* the last completed call: operation, result, count before it

vars == <<ndebug, newRet, newArgs, key, objState, allocd, released, relLog,
          heap, audit, pc, loc, held, stray, nUp, nFree, nZero, nOps, aborted, err, last>>

Resources == {"obj", "alg", "tls_name", "propq"}

NoKey == [iskem |-> FALSE, handle |-> NoHandle, privkeylen |-> 0, pubkeylen |-> 0,
          privkey |-> NULL, pubkey |-> NULL, tls_name |-> FALSE, propq |-> FALSE,
          references |-> 0]

NoArgs == [oqs_name |-> "none", is_kem |-> FALSE, propq |-> FALSE,
           objOk |-> FALSE, nameOk |-> FALSE, propqOk |-> FALSE]

\* A parameter entry of an OSSL_PARAM array: absent, or a declared type and bytes.
Absent == [type |-> "absent", data |-> <<>>]

NoArg == [priv |-> Absent, pub |-> Absent, include_private |-> FALSE]

Call(op, ret, pre) == [op |-> op, ret |-> ret, pre |-> pre, arg |-> NoArg]

NoCall == Call("none", 0, 0)

\* A slot of the allocator that holds no buffer.
FreeSlot == [live |-> FALSE, kind |-> "none", data |-> <<>>]

\* Nothing seen yet: no private key bytes left in released storage, no private
\* key wiped, no buffer released twice.
NoAudit == [secretLeft |-> FALSE, wiped |-> 0, doubleFree |-> FALSE]

Init ==
    /\ ndebug \in BOOLEAN
    /\ newRet = "none"
    /\ newArgs = NoArgs
    /\ key = NoKey
    /\ objState = "none"
    /\ allocd = [r \in Resources |-> 0]
    /\ released = [r \in Resources |-> 0]
    /\ relLog = <<>>
    /\ heap = [i \in 1 .. MaxBufs |-> FreeSlot]
    /\ audit = NoAudit
    /\ pc = [t \in Threads |-> "idle"]
    /\ loc = [t \in Threads |-> 0]
    /\ held = [t \in Threads |-> 0]
    /\ stray = FALSE
    /\ nUp = 0
    /\ nFree = 0
    /\ nZero = 0
    /\ nOps = 0
    /\ aborted = FALSE
    /\ err = {}
    /\ last = NoCall

Running == ~aborted

\* ------------------------------------------------------- oqsx_key_new
\* Line 57: the count a new key starts with.
InitialReferences == 1

\* Lines 44-55: the handle constructor picked by is_kem.
NewHandle(is_kem, name) ==
    IF is_kem THEN OQS_KEM_new(name) ELSE OQS_SIG_new(name)

\* Lines 45-57: the object's fields once the handle's lengths were read.
KeyFields(is_kem, handle, sk, pk) ==
    [iskem |-> is_kem, handle |-> handle, privkeylen |-> sk, pubkeylen |-> pk,
     privkey |-> NULL, pubkey |-> NULL, tls_name |-> FALSE, propq |-> FALSE,
     references |-> InitialReferences]

\* Lines 58-71, with the object allocated and its lengths read: the unchecked
\* copy of tls_name, the copy of propq, the error raised either way, and the
\* err path that releases the object alone.
NewTail(t, k, a) ==
    LET k1 == [k EXCEPT !.tls_name = a.nameOk]
        al1 == [allocd EXCEPT !["obj"] = 1,
                              !["alg"] = IF k.handle = NoHandle THEN 0 ELSE 1,
                              !["tls_name"] = IF a.nameOk THEN 1 ELSE 0]
    IN  IF a.propq /\ ~a.propqOk
        THEN /\ key' = k1
             /\ allocd' = al1
             /\ err' = err \cup {"EC_MALLOC_FAILURE"}
             /\ released' = [released EXCEPT !["obj"] = 1]
             /\ objState' = "freed"
             /\ newRet' = "null"
             /\ held' = held
             /\ aborted' = FALSE
             /\ last' = Call("new", 0, 0)
        ELSE /\ key' = [k1 EXCEPT !.propq = a.propq]
             /\ allocd' = [al1 EXCEPT !["propq"] = IF a.propq THEN 1 ELSE 0]
             /\ err' = IF a.propq THEN err \cup {"EC_MALLOC_FAILURE"} ELSE err
             /\ released' = released
             /\ objState' = "live"
             /\ newRet' = "key"
             /\ held' = [held EXCEPT ![t] = 1]
             /\ aborted' = FALSE
             /\ last' = Call("new", 1, 0)

\* The arguments of a call and what the allocator does during it.
NewInputs ==
    {a \in [oqs_name : AlgNames, is_kem : BOOLEAN, propq : BOOLEAN,
            objOk : BOOLEAN, nameOk : BOOLEAN, propqOk : BOOLEAN] :
        /\ (~a.objOk => ~a.nameOk /\ ~a.propqOk)
        /\ (~a.propq => ~a.propqOk)}

\* Lines 38-41: the object cannot be allocated.
NewNoObject(t, a) ==
    /\ ~a.objOk
    /\ newRet' = "null"
    /\ last' = Call("new", 0, 0)
    /\ UNCHANGED <<key, objState, allocd, released, held, aborted, err>>

\* Lines 44-55 with a handle: its advertised lengths are recorded.
NewWithHandle(t, a) ==
    LET h == NewHandle(a.is_kem, a.oqs_name)
    IN  /\ a.objOk
        /\ h # NoHandle
        /\ NewTail(t, KeyFields(a.is_kem, h, h.length_secret_key, h.length_public_key), a)

\* What a read through the NULL handle may yield when it does not crash.
GarbageLens == {0, MaxLen}

\* Lines 44-55 with a NULL handle: lines 46-47 / 52-53 read through it.  The
\* process crashes, or the reads yield whatever the memory holds.
NewNullHandle(t, a) ==
    LET h == NewHandle(a.is_kem, a.oqs_name)
    IN  /\ a.objOk
        /\ h = NoHandle
        /\ \/ /\ aborted' = TRUE
              /\ allocd' = [allocd EXCEPT !["obj"] = 1]
              /\ objState' = "live"
              /\ last' = Call("new", -1, 0)
              /\ UNCHANGED <<key, released, held, err, newRet>>
           \/ \E g \in GarbageLens :
                  NewTail(t, KeyFields(a.is_kem, h, g, g), a)

\* The calls whose algorithm name resolves to a handle of the requested kind.
ResolvingInputs == {a \in NewInputs : NewHandle(a.is_kem, a.oqs_name) # NoHandle}

\* Lines 36-72, with the arguments drawn from inputs.
oqsx_key_new(t, inputs) ==
    /\ Running
    /\ newRet = "none"
    /\ \E a \in inputs :
          /\ newArgs' = a
          /\ \/ NewNoObject(t, a)
             \/ NewWithHandle(t, a)
             \/ NewNullHandle(t, a)
    /\ UNCHANGED <<ndebug, relLog, heap, audit, pc, loc, stray, nUp, nFree, nOps, nZero>>

\* ------------------------------------------------- reference counting
\* A thread calls through a reference it holds, or (a caller's error, followed
\* up to the first such call) through a pointer it kept without holding a
\* reference.
MayCall(t) ==
    /\ Running
    /\ newRet = "key"
    /\ pc[t] = "idle"
    /\ (held[t] >= 1 \/ ~stray)

StrayAfter(t) == stray \/ held[t] = 0

\* The call reads the object after its storage was released.
Dangling == objState = "freed"

\* The process is terminated inside operation op of thread t.
Crash(t, op, pre) ==
    /\ aborted' = TRUE
    /\ last' = Call(op, -1, pre)

\* Lines 104-105: atomic_fetch_add_explicit(&key->references, 1) + 1.
FetchAdd(references) == references + 1

\* Line 110: the value oqsx_key_up_ref returns.
UpRefReturn(refcnt) == IF refcnt > 1 THEN 1 ELSE 0

\* Line 109: assert(refcnt > 1), compiled out under NDEBUG.
UpRefAssertFails(refcnt) == ~ndebug /\ ~(refcnt > 1)

\* Lines 100-111.
oqsx_key_up_ref(t) ==
    /\ MayCall(t)
    /\ nUp < MaxUpRefs
    /\ stray' = StrayAfter(t)
    /\ \/ /\ Dangling
          /\ Crash(t, "up_ref", key.references)
          /\ UNCHANGED <<key, held, nUp, nZero>>
       \/ LET refcnt == FetchAdd(key.references)
          IN  /\ key' = [key EXCEPT !.references = refcnt]
              /\ nUp' = nUp + 1
              /\ nZero' = IF refcnt = 0 THEN nZero + 1 ELSE nZero
              /\ IF UpRefAssertFails(refcnt)
                 THEN /\ Crash(t, "up_ref", key.references)
                      /\ held' = held
                 ELSE /\ last' = Call("up_ref", UpRefReturn(refcnt), key.references)
                      /\ held' = [held EXCEPT ![t] = @ + UpRefReturn(refcnt)]
                      /\ aborted' = aborted
    /\ UNCHANGED <<ndebug, newRet, newArgs, objState, allocd, released, relLog,
                   heap, audit, pc, loc, nFree, err, nOps>>

\* A holder passes one of its references to another thread.
Handoff(t, u) ==
    /\ Running
    /\ t # u
    /\ pc[t] = "idle"
    /\ held[t] >= 1
    /\ held' = [held EXCEPT ![t] = @ - 1, ![u] = @ + 1]
    /\ UNCHANGED <<ndebug, newRet, newArgs, key, objState, allocd, released, relLog,
                   heap, audit, pc, loc, stray, nUp, nFree, aborted, err, last, nOps, nZero>>

\* Lines 78-79: oqsx_key_free(NULL), by a caller whose reference is null: no
\* key was constructed, or oqsx_key_new returned NULL.
oqsx_key_free_null(t) ==
    /\ Running
    /\ pc[t] = "idle"
    /\ newRet \in {"none", "null"}
    /\ last # Call("free_null", 0, 0)
    /\ last' = Call("free_null", 0, 0)
    /\ UNCHANGED <<ndebug, newRet, newArgs, key, objState, allocd, released, relLog,
                   heap, audit, pc, loc, held, stray, nUp, nFree, aborted, err, nOps, nZero>>

\* Lines 81-82: atomic_fetch_sub_explicit(&key->references, 1) - 1.
FetchSub(references) == references - 1

\* Lines 81-82: the decrement; the caller's reference is given up.
FreeDec(t) ==
    /\ MayCall(t)
    /\ stray' = StrayAfter(t)
    /\ \/ /\ Dangling
          /\ Crash(t, "free", 0)
          /\ UNCHANGED <<key, held, nFree, nZero, pc, loc>>
       \/ LET refcnt == FetchSub(key.references)
          IN  /\ key' = [key EXCEPT !.references = refcnt]
              /\ nFree' = nFree + 1
              /\ nZero' = IF refcnt = 0 THEN nZero + 1 ELSE nZero
              /\ loc' = [loc EXCEPT ![t] = refcnt]
              /\ pc' = [pc EXCEPT ![t] = "free_chk"]
              /\ held' = [held EXCEPT ![t] = IF @ >= 1 THEN @ - 1 ELSE 0]
              /\ UNCHANGED <<aborted, last>>
    /\ UNCHANGED <<ndebug, newRet, newArgs, objState, allocd, released, relLog,
                   heap, audit, nUp, err, nOps>>

\* FreeReturnsEarly with the test off by one: the release starts while one
\* reference is left.
FreeReturnsEarlyOffByOne(refcnt) == refcnt > 1

\* Line 88: the call returns before releasing anything.
FreeReturnsEarly(refcnt) == refcnt > 0

\* Line 90: assert(refcnt == 0), compiled out under NDEBUG.
FreeAssertFails(refcnt) == ~ndebug /\ ~(refcnt = 0)

\* Lines 88-90.
FreeChk(t) ==
    /\ Running
    /\ pc[t] = "free_chk"
    /\ IF FreeReturnsEarly(loc[t])
       THEN /\ pc' = [pc EXCEPT ![t] = "idle"]
            /\ last' = Call("free", 0, 0)
            /\ aborted' = aborted
       ELSE IF FreeAssertFails(loc[t])
       THEN /\ Crash(t, "free", 0)
            /\ pc' = pc
       ELSE /\ pc' = [pc EXCEPT ![t] = "rel_propq"]
            /\ UNCHANGED <<aborted, last>>
    /\ UNCHANGED <<ndebug, newRet, newArgs, key, objState, allocd, released, relLog,
                   heap, audit, loc, held, stray, nUp, nFree, err, nOps, nZero>>


\* ------------------------------------------------------ secure allocator
\* The first num bytes of a buffer zeroed (OPENSSL_cleanse).
ClearedData(data, num) == [i \in 1 .. Len(data) |-> IF i <= num THEN 0 ELSE data[i]]

FreeSlots(h) == {i \in DOMAIN h : ~h[i].live}

LowestFree(h) == CHOOSE i \in FreeSlots(h) : \A j \in FreeSlots(h) : i <= j

\* The allocator hands out a buffer unless it fails; it fails at the latest when
\* every slot holds a buffer.
CanAlloc(h, ok) == ok /\ FreeSlots(h) # {}

\* OPENSSL_secure_zalloc(num), or OPENSSL_secure_malloc(num) and the memcpy that
\* fills it: the pointer returned ...
PtrAfterAlloc(h, ok) == IF CanAlloc(h, ok) THEN LowestFree(h) ELSE NULL

\* ... and the heap after the call.
HeapAfterAlloc(h, ok, kind, data) ==
    IF CanAlloc(h, ok)
    THEN [h EXCEPT ![LowestFree(h)] = [live |-> TRUE, kind |-> kind, data |-> data]]
    ELSE h

\* ptr names storage that was released already.
BufReleased(h, ptr) == ptr # NULL /\ ~h[ptr].live

\* OPENSSL_secure_clear_free(ptr, num): nothing for NULL; otherwise the first num
\* bytes are zeroed and the storage is released.
OPENSSL_secure_clear_free(h, ptr, num) ==
    IF ptr = NULL \/ BufReleased(h, ptr) THEN h ELSE [h EXCEPT ![ptr] = FreeSlot]

\* What the allocator sees at that call: private key bytes still in the storage
\* it takes back, private key bytes wiped before it takes the storage back, a
\* buffer it was given twice.
AuditAfterFree(a, h, ptr, num) ==
    IF ptr = NULL THEN a
    ELSE IF BufReleased(h, ptr) THEN [a EXCEPT !.doubleFree = TRUE]
    ELSE LET secret == h[ptr].kind = "priv" /\ ~AllZero(h[ptr].data)
             zeroed == AllZero(ClearedData(h[ptr].data, num))
         IN  [a EXCEPT !.secretLeft = @ \/ (secret /\ ~zeroed),
                       !.wiped = IF secret /\ zeroed THEN @ + 1 ELSE @]

\* ------------------------------------------- oqsx_key_free, the release
\* A release step of oqsx_key_free: thread t at pc from moves on to pc to.  A
\* step that reads the released object, or releases a resource again, crashes
\* or goes on.
RelStep(t, from, to, undefined, op) ==
    /\ Running
    /\ pc[t] = from
    /\ \/ /\ undefined
          /\ Crash(t, "free", 0)
          /\ UNCHANGED <<released, relLog, heap, audit, objState, pc>>
       \/ /\ op
          /\ pc' = [pc EXCEPT ![t] = to]
          /\ IF to = "idle"
             THEN last' = Call("free", 1, 0)
             ELSE last' = last
          /\ aborted' = aborted
    /\ UNCHANGED <<ndebug, newRet, newArgs, key, allocd, loc, held, stray, nUp, nFree, err, nOps, nZero>>

\* OPENSSL_free / OQS_KEM_free / OQS_SIG_free of an owned resource: nothing for NULL.
Release(r, present) ==
    /\ released' = [released EXCEPT ![r] = IF present THEN @ + 1 ELSE @]
    /\ relLog' = IF present THEN Append(relLog, r) ELSE relLog

\* Line 92: OPENSSL_free(key->propq).
RelPropq(t) ==
    RelStep(t, "rel_propq", "rel_priv",
            Dangling \/ (key.propq /\ released["propq"] >= 1),
            Release("propq", key.propq) /\ UNCHANGED <<heap, audit, objState>>)

\* PrivClearLen one byte short: the last byte of the private key is not wiped.
PrivClearLenShort(k) == k.privkeylen - 1

\* Lines 93 and 133: the length handed to OPENSSL_secure_clear_free with privkey.
PrivClearLen(k) == k.privkeylen

\* Lines 94 and 148: the length handed to OPENSSL_secure_clear_free with pubkey.
PubClearLen(k) == k.pubkeylen

\* Line 93: OPENSSL_secure_clear_free(key->privkey, key->privkeylen).
RelPriv(t) ==
    RelStep(t, "rel_priv", "rel_pub",
            Dangling \/ BufReleased(heap, key.privkey),
            /\ heap' = OPENSSL_secure_clear_free(heap, key.privkey, PrivClearLen(key))
            /\ audit' = AuditAfterFree(audit, heap, key.privkey, PrivClearLen(key))
            /\ relLog' = IF key.privkey # NULL THEN Append(relLog, "privkey") ELSE relLog
            /\ UNCHANGED <<released, objState>>)

\* Line 94: OPENSSL_secure_clear_free(key->pubkey, key->pubkeylen).
RelPub(t) ==
    RelStep(t, "rel_pub", "rel_alg",
            Dangling \/ BufReleased(heap, key.pubkey),
            /\ heap' = OPENSSL_secure_clear_free(heap, key.pubkey, PubClearLen(key))
            /\ audit' = AuditAfterFree(audit, heap, key.pubkey, PubClearLen(key))
            /\ relLog' = IF key.pubkey # NULL THEN Append(relLog, "pubkey") ELSE relLog
            /\ UNCHANGED <<released, objState>>)

\* Lines 95-96: OQS_KEM_free(key->key.k) or OQS_SIG_free(key->key.s).
RelAlg(t) ==
    RelStep(t, "rel_alg", "rel_obj",
            Dangling \/ (key.handle # NoHandle /\ released["alg"] >= 1),
            Release("alg", key.handle # NoHandle) /\ UNCHANGED <<heap, audit, objState>>)

\* Line 97: OPENSSL_free(key).
RelObj(t) ==
    RelStep(t, "rel_obj", "idle",
            Dangling,
            Release("obj", TRUE) /\ objState' = "freed" /\ UNCHANGED <<heap, audit>>)

\* ----------------------------------------------------- key material
\* The key is constructed, not being destroyed, and thread t holds a reference:
\* the callers give the operations below exclusive access.
MayUse(t) ==
    /\ Running
    /\ newRet = "key"
    /\ objState = "live"
    /\ held[t] >= 1
    /\ key.references >= 1
    /\ \A u \in Threads : pc[u] = "idle"

\* AllocateReturn with the test of pubkey left out.
AllocateReturnPrivOnly(privkey, pubkey) == IF privkey = NULL THEN 1 ELSE 0

\* Line 118: the value oqsx_key_allocate_keymaterial returns (0 reports success).
AllocateReturn(privkey, pubkey) == IF privkey = NULL \/ pubkey = NULL THEN 1 ELSE 0

\* Lines 115-120 on key fields k and heap h: the fields, heap and result after.
AllocateKeymaterial(k, h, okPriv, okPub) ==
    LET h1 == HeapAfterAlloc(h, okPriv, "priv", Zeros(k.privkeylen))
        p1 == PtrAfterAlloc(h, okPriv)
        h2 == HeapAfterAlloc(h1, okPub, "pub", Zeros(k.pubkeylen))
        p2 == PtrAfterAlloc(h1, okPub)
    IN  [key |-> [k EXCEPT !.privkey = p1, !.pubkey = p2],
         heap |-> h2,
         ret |-> AllocateReturn(p1, p2)]

\* Lines 113-121.
oqsx_key_allocate_keymaterial(t) ==
    /\ MayUse(t)
    /\ nOps < MaxOps
    /\ nOps' = nOps + 1
    /\ \E okPriv \in BOOLEAN, okPub \in BOOLEAN :
          LET r == AllocateKeymaterial(key, heap, okPriv, okPub)
          IN  /\ key' = r.key
              /\ heap' = r.heap
              /\ last' = Call("allocate_keymaterial", r.ret, 0)
    /\ UNCHANGED <<ndebug, newRet, newArgs, objState, allocd, released, relLog,
                   audit, pc, loc, held, stray, nUp, nFree, aborted, err, nZero>>

\* The entries a caller may pass for OSSL_PKEY_PARAM_PRIV_KEY / _PUB_KEY: none,
\* one whose data_type is not OSSL_PARAM_OCTET_STRING, or an octet string.
ParamEntries ==
    {Absent, [type |-> "other", data |-> <<>>]}
        \cup {[type |-> "octet", data |-> d] : d \in SampleStrings}

\* FromDataBytes with the copy left out: the new buffer holds zeros.
FromDataBytesNotCopied(p) == Zeros(Len(p.data))

\* Lines 139 and 154: memcpy(key->privkey, p->data, p->data_size), the bytes the
\* new buffer holds.
FromDataBytes(p) == p.data

\* FromDataLen off by one.
FromDataLenPlusOne(p) == Len(p.data) + 1

\* Lines 140 and 155: key->privkeylen = p->data_size.
FromDataLen(p) == Len(p.data)

\* Lines 128-141 (ptrF = "privkey") and 143-156 (ptrF = "pubkey") on the running
\* state st of the call: entry p, its allocation succeeding or not.
FromDataEntry(st, p, ok, ptrF, lenF, kind) ==
    IF p = Absent THEN st
    ELSE IF p.type # "octet" THEN [st EXCEPT !.ret = 0, !.done = TRUE]
    ELSE LET num == IF kind = "priv" THEN PrivClearLen(st.key) ELSE PubClearLen(st.key)
             h1 == OPENSSL_secure_clear_free(st.heap, st.key[ptrF], num)
             a1 == AuditAfterFree(st.audit, st.heap, st.key[ptrF], num)
             ptr == PtrAfterAlloc(h1, ok)
         IN  IF ptr = NULL
             THEN [key |-> [st.key EXCEPT ![ptrF] = NULL],
                   heap |-> h1,
                   audit |-> a1,
                   ret |-> 0,
                   done |-> TRUE,
                   err |-> st.err \cup {"PROV_MALLOC_FAILURE"}]
             ELSE [key |-> [st.key EXCEPT ![ptrF] = ptr, ![lenF] = FromDataLen(p)],
                   heap |-> HeapAfterAlloc(h1, ok, kind, FromDataBytes(p)),
                   audit |-> a1,
                   ret |-> st.ret,
                   done |-> FALSE,
                   err |-> st.err]

\* Lines 127-157: the private entry, then the public entry, then return 1.
FromData(k, h, a, e, priv, pub, okPriv, okPub) ==
    LET s0 == [key |-> k, heap |-> h, audit |-> a, ret |-> 1, done |-> FALSE, err |-> e]
        s1 == FromDataEntry(s0, priv, okPriv, "privkey", "privkeylen", "priv")
    IN  IF s1.done THEN s1
        ELSE FromDataEntry(s1, pub, okPub, "pubkey", "pubkeylen", "pub")

\* The allocator can fail where the call allocates.
AllocOutcomes(p) == IF p.type = "octet" THEN BOOLEAN ELSE {TRUE}

\* Lines 123-158.  include_private is a parameter the body never reads.
oqsx_key_fromdata(t) ==
    /\ MayUse(t)
    /\ nOps < MaxOps
    /\ nOps' = nOps + 1
    /\ \E priv \in ParamEntries, pub \in ParamEntries, include_private \in BOOLEAN :
          \E okPriv \in AllocOutcomes(priv), okPub \in AllocOutcomes(pub) :
              LET r == FromData(key, heap, audit, err, priv, pub, okPriv, okPub)
              IN  /\ key' = r.key
                  /\ heap' = r.heap
                  /\ audit' = r.audit
                  /\ err' = r.err
                  /\ last' = [op |-> "fromdata", ret |-> r.ret, pre |-> 0,
                              arg |-> [priv |-> priv, pub |-> pub,
                                       include_private |-> include_private]]
    /\ UNCHANGED <<ndebug, newRet, newArgs, objState, allocd, released, relLog,
                   pc, loc, held, stray, nUp, nFree, aborted, nZero>>

\* OQS_KEM_keypair / OQS_SIG_keypair writing n generated bytes into a buffer:
\* the bytes of the buffer afterwards (what lies inside it).
KeypairWrite(data, n, bytes) ==
    [i \in 1 .. Len(data) |-> IF i <= n THEN bytes[i] ELSE data[i]]

\* The heap after the primitive wrote n bytes through ptr.
HeapAfterKeypair(h, ptr, n, bytes) ==
    IF ptr = NULL THEN h
    ELSE [h EXCEPT ![ptr] = [@ EXCEPT !.data = KeypairWrite(@, n, bytes)]]

\* Line 162: oqsx_key_gen allocates when a buffer is absent.
GenAllocates(k) == k.privkey = NULL \/ k.pubkey = NULL

\* Lines 164-167 are undefined when the handle or a buffer is NULL, or a buffer
\* is shorter than the key the primitive writes.
KeypairUndefined(k, h) ==
    IF k.handle = NoHandle \/ k.privkey = NULL \/ k.pubkey = NULL THEN TRUE
    ELSE Len(h[k.privkey].data) < k.handle.length_secret_key
            \/ Len(h[k.pubkey].data) < k.handle.length_public_key

\* The status values the primitive returns: OQS_SUCCESS and OQS_ERROR.
OQS_SUCCESS == 0
OQS_ERROR == -1

\* Lines 160-168.  The result of the allocation at line 162 is dropped.  Where
\* the call of the primitive is undefined the process crashes, or the primitive
\* goes on and writes what fits into the buffers there are.
oqsx_key_gen(t) ==
    /\ MayUse(t)
    /\ nOps < MaxOps
    /\ nOps' = nOps + 1
    /\ \E okPriv \in BOOLEAN, okPub \in BOOLEAN, status \in {OQS_SUCCESS, OQS_ERROR},
          pk \in SampleBytes(key.handle.length_public_key),
          sk \in SampleBytes(key.handle.length_secret_key) :
          LET a == IF GenAllocates(key)
                   THEN AllocateKeymaterial(key, heap, okPriv, okPub)
                   ELSE [key |-> key, heap |-> heap, ret |-> 0]
          IN  /\ key' = a.key
              /\ \/ /\ KeypairUndefined(a.key, a.heap)
                    /\ heap' = a.heap
                    /\ Crash(t, "gen", 0)
                 \/ /\ a.key.handle # NoHandle
                    /\ heap' = HeapAfterKeypair(
                                   HeapAfterKeypair(a.heap, a.key.pubkey,
                                                    a.key.handle.length_public_key, pk),
                                   a.key.privkey, a.key.handle.length_secret_key, sk)
                    /\ last' = Call("gen", status, 0)
                    /\ aborted' = aborted
    /\ UNCHANGED <<ndebug, newRet, newArgs, objState, allocd, released, relLog,
                   audit, pc, loc, held, stray, nUp, nFree, err, nZero>>

\* C's integer division, which truncates towards zero.
CDiv(a, b) == IF a >= 0 THEN a \div b ELSE -((-a) \div b)

\* ParamBits without the truncating division: 32 bits more per level.
ParamBitsLinear(claimed_nist_level) == 128 + (claimed_nist_level - 1) * 32

\* Lines 172-173: 128+(claimed_nist_level-1)/2*64.
ParamBits(claimed_nist_level) == 128 + CDiv(claimed_nist_level - 1, 2) * 64

\* Lines 170-174.
oqsx_key_parambits(t) ==
    /\ MayUse(t)
    /\ key.handle # NoHandle
    /\ last' = Call("parambits", ParamBits(key.handle.claimed_nist_level), 0)
    /\ UNCHANGED <<ndebug, newRet, newArgs, key, objState, allocd, released, relLog,
                   heap, audit, pc, loc, held, stray, nUp, nFree, aborted, err, nOps, nZero>>

\* ------------------------------------------------------ specifications
\* Threads share one key and count references on it.
Next ==
    \E t \in Threads :
        \/ (t = 1 /\ oqsx_key_new(t, ResolvingInputs))
        \/ oqsx_key_up_ref(t)
        \/ \E u \in Threads : Handoff(t, u)
        \/ oqsx_key_free_null(t)
        \/ FreeDec(t)
        \/ FreeChk(t)
        \/ RelPropq(t)
        \/ RelPriv(t)
        \/ RelPub(t)
        \/ RelAlg(t)
        \/ RelObj(t)

Spec == Init /\ [][Next]_vars

\* The calls of oqsx_key_new in which every allocation succeeds.
KeyInputs ==
    {a \in ResolvingInputs : a.objOk /\ a.nameOk /\ ~a.propq}

\* One owner constructs a key, populates it and releases it.
NextKeys ==
    \/ oqsx_key_new(1, KeyInputs)
    \/ oqsx_key_allocate_keymaterial(1)
    \/ oqsx_key_fromdata(1)
    \/ oqsx_key_gen(1)
    \/ oqsx_key_parambits(1)
    \/ (held[1] >= 1 /\ FreeDec(1))
    \/ FreeChk(1)
    \/ RelPropq(1)
    \/ RelPriv(1)
    \/ RelPub(1)
    \/ RelAlg(1)
    \/ RelObj(1)

SpecKeys == Init /\ [][NextKeys]_vars

\* Every call of oqsx_key_new, and the release of what it returned.
NextNew ==
    \/ oqsx_key_new(1, NewInputs)
    \/ oqsx_key_free_null(1)
    \/ (held[1] >= 1 /\ FreeDec(1))
    \/ FreeChk(1)
    \/ RelPropq(1)
    \/ RelPriv(1)
    \/ RelPub(1)
    \/ RelAlg(1)
    \/ RelObj(1)

SpecNew == Init /\ [][NextNew]_vars

\* The NIST levels an algorithm can claim.
Levels == 1 .. 5

\* A KEM and a signature handle for each level (claimed_nist_level, read at
\* lines 172-173).
LevelHandles ==
    {[kind |-> k, length_public_key |-> 1, length_secret_key |-> 2,
      claimed_nist_level |-> l] : k \in {"kem", "sig"}, l \in Levels}

\* The state oqsx_key_new leaves when it returns a key on handle h to thread 1,
\* every allocation having succeeded and no propq given.
Constructed(h) ==
    /\ newRet = "key"
    /\ newArgs = [NoArgs EXCEPT !.oqs_name = "alg", !.is_kem = (h.kind = "kem"),
                                !.objOk = TRUE, !.nameOk = TRUE]
    /\ key = [KeyFields(h.kind = "kem", h, h.length_secret_key, h.length_public_key)
                EXCEPT !.tls_name = TRUE]
    /\ objState = "live"
    /\ allocd = [r \in Resources |-> IF r = "propq" THEN 0 ELSE 1]
    /\ held = [t \in Threads |-> IF t = 1 THEN 1 ELSE 0]
    /\ last = Call("new", 1, 0)

InitBits ==
    /\ ndebug \in BOOLEAN
    /\ \E h \in LevelHandles : Constructed(h)
    /\ released = [r \in Resources |-> 0]
    /\ relLog = <<>>
    /\ heap = [i \in 1 .. MaxBufs |-> FreeSlot]
    /\ audit = NoAudit
    /\ pc = [t \in Threads |-> "idle"]
    /\ loc = [t \in Threads |-> 0]
    /\ stray = FALSE
    /\ nUp = 0
    /\ nFree = 0
    /\ nZero = 0
    /\ nOps = 0
    /\ aborted = FALSE
    /\ err = {}

\* One owner queries the security bits of a key of any level, before and after
\* it allocates key material, and releases the key.
NextBits ==
    \/ oqsx_key_parambits(1)
    \/ oqsx_key_allocate_keymaterial(1)
    \/ (held[1] >= 1 /\ FreeDec(1))
    \/ FreeChk(1)
    \/ RelPropq(1)
    \/ RelPriv(1)
    \/ RelPub(1)
    \/ RelAlg(1)
    \/ RelObj(1)

SpecBits == InitBits /\ [][NextBits]_vars

\* =============================================================== claims
ReleasePcs == {"rel_propq", "rel_priv", "rel_pub", "rel_alg", "rel_obj"}

InRelease(t) == pc[t] \in ReleasePcs

\* Some oqsx_key_free got past line 90 on the key: its destruction began.
Destroying == released["obj"] >= 1 \/ relLog # <<>> \/ \E t \in Threads : InRelease(t)

\* Every call so far was made through a reference the caller held.
Disciplined == newRet = "key" /\ ~stray

\* C1: when every oqsx_key_up_ref and oqsx_key_free is called through a held
\* reference, in every interleaving: the object is destroyed at most once, and
\* exactly once when every reference was given up and every call returned; its
\* destruction begins only when the free calls number one more than the up_ref
\* calls; and while some thread holds a reference nothing of the object is
\* released.
C1_DestroyedOnceAfterLastFree ==
    Disciplined =>
        /\ released["obj"] <= 1
        /\ Cardinality({t \in Threads : InRelease(t)}) <= 1
        /\ (released["obj"] = 1 => \A t \in Threads : ~InRelease(t))
        /\ (Destroying => nFree = 1 + nUp)
        /\ ((\E t \in Threads : held[t] >= 1) => ~Destroying /\ objState = "live")
        /\ ((\A t \in Threads : held[t] = 0 /\ pc[t] = "idle") /\ Running
                => released["obj"] = 1 /\ objState = "freed")

\* Two up_ref calls and three free calls later the object was destroyed.
C1_Witness ==
    /\ Disciplined
    /\ nUp = 2
    /\ nFree = 3
    /\ released["obj"] = 1
    /\ objState = "freed"
    /\ \A t \in Threads : pc[t] = "idle"

\* C2: on a constructed key, whatever oqsx_key_up_ref and oqsx_key_free calls
\* are made and however they interleave, the count is never negative and it is
\* brought to 0 at most once.
C2_CountNeverNegativeZeroOnce ==
    newRet = "key" => key.references >= 0 /\ nZero <= 1

\* C3: oqsx_key_up_ref on a key whose storage is live returns to its caller:
\* success (1) exactly when the count before the increment was >= 1, failure
\* (0) when it was <= 0.
C3_UpRefReturnsByPriorCount ==
    (last.op = "up_ref" /\ objState = "live")
        => last.ret = (IF last.pre >= 1 THEN 1 ELSE 0)

\* The stage of the release order each resource belongs to: the strings, the
\* private key, the public key, the algorithm handle, the object.
ReleaseStage(r) ==
    CASE r \in {"tls_name", "propq"} -> 1
      [] r = "privkey" -> 2
      [] r = "pubkey" -> 3
      [] r = "alg" -> 4
      [] r = "obj" -> 5

\* C4: once the oqsx_key_free that brought the count to zero returned, every
\* resource the key owned was released exactly once, and the releases were made
\* in the order strings, private key, public key, algorithm handle, object.
C4_AllReleasedOnceInOrder ==
    (Disciplined /\ objState = "freed" /\ \A t \in Threads : pc[t] = "idle")
        => /\ \A r \in Resources : released[r] = allocd[r]
           /\ \A i \in 1 .. Len(relLog) : \A j \in i .. Len(relLog) :
                  ReleaseStage(relLog[i]) <= ReleaseStage(relLog[j])

\* C5: the allocator never takes back the storage of a private key buffer in
\* which a nonzero byte is left, on any path: the final oqsx_key_free, the
\* replacement in oqsx_key_fromdata, the error paths.
C5_PrivateKeyWipedBeforeRelease == ~audit.secretLeft

\* A private key was replaced by oqsx_key_fromdata and its successor destroyed
\* with the key: the allocator took back two private keys, both wiped.
C5_Witness ==
    /\ audit.wiped >= 2
    /\ objState = "freed"
    /\ last.op = "free"

\* What a call of oqsx_key_free may not touch unless it destroys the key.
KeyFrame == <<key.iskem, key.handle, key.privkeylen, key.pubkeylen, key.privkey,
              key.pubkey, key.tls_name, key.propq, objState, allocd, released,
              relLog, heap>>

\* C6: an oqsx_key_free whose decrement leaves a nonzero count returns without
\* changing anything but the count, and oqsx_key_free(NULL) changes nothing.
C6_NonFinalFreeChangesOnlyCount ==
    [][ /\ \A t \in Threads :
              (pc[t] = "free_chk" /\ loc[t] # 0 /\ pc'[t] # pc[t])
                  => (pc'[t] = "idle" /\ UNCHANGED KeyFrame)
        /\ (last' # last /\ last'.op = "free_null")
              => UNCHANGED <<key, objState, allocd, released, relLog, heap>>
      ]_vars

\* C7: a key returned by oqsx_key_new has count 1, the requested kind, a handle
\* of that kind, the handle's advertised key lengths, copies of the display
\* name and (when given) of the property query, and no key buffers.
C7_NewReturnsFullyFormedKey ==
    (newRet = "key" /\ last.op = "new")
        => /\ key.references = 1
           /\ key.iskem = newArgs.is_kem
           /\ key.handle # NoHandle
           /\ key.handle.kind = (IF newArgs.is_kem THEN "kem" ELSE "sig")
           /\ key.privkeylen = key.handle.length_secret_key
           /\ key.pubkeylen = key.handle.length_public_key
           /\ key.tls_name
           /\ key.propq = newArgs.propq
           /\ key.privkey = NULL
           /\ key.pubkey = NULL

\* C8: when the name resolves to no handle of the requested kind, oqsx_key_new
\* returns NULL to its caller; the process does not crash on a read through the
\* missing handle and no key is returned.
C8_UnknownAlgorithmReturnsNull ==
    (newArgs # NoArgs /\ newArgs.objOk
            /\ NewHandle(newArgs.is_kem, newArgs.oqs_name) = NoHandle)
        => (newRet = "null" /\ Running)

\* C9 (for the calls whose name resolves to a handle): when oqsx_key_new returns
\* NULL everything it allocated was released, and it returns no key whose copy
\* of the display name or of the property query could not be allocated.
C9_NewFailureRollsBack ==
    NewHandle(newArgs.is_kem, newArgs.oqs_name) # NoHandle
        => /\ newRet = "null" => \A r \in Resources : released[r] = allocd[r]
           /\ newRet = "key" => newArgs.nameOk /\ (newArgs.propq => newArgs.propqOk)

\* C10: oqsx_key_allocate_keymaterial returns 0 (success) only when both
\* allocations succeeded, and then privkey and pubkey are two live buffers of
\* privkeylen and pubkeylen bytes, every byte zero.
C10_AllocateSuccessGivesZeroedBuffers ==
    [][ (nOps' = nOps + 1 /\ last'.op = "allocate_keymaterial" /\ last'.ret = 0)
            => /\ key'.privkey # NULL
               /\ key'.pubkey # NULL
               /\ key'.privkey # key'.pubkey
               /\ heap'[key'.privkey].live
               /\ heap'[key'.pubkey].live
               /\ heap'[key'.privkey].data = Zeros(key'.privkeylen)
               /\ heap'[key'.pubkey].data = Zeros(key'.pubkeylen)
      ]_vars

\* oqsx_key_allocate_keymaterial just succeeded on a key whose private key
\* length an earlier oqsx_key_fromdata had changed.
C10_Witness ==
    /\ last.op = "allocate_keymaterial"
    /\ last.ret = 0
    /\ nOps = 2
    /\ key.privkeylen # key.handle.length_secret_key
    /\ key.privkeylen > 0
    /\ heap[key.privkey].data = Zeros(key.privkeylen)

\* The step is a call of operation op that allocates, populates or generates.
KeyCall(op) == nOps' = nOps + 1 /\ last'.op = op

\* The slots of heap h that hold a buffer.
LiveSlots(h) == {i \in DOMAIN h : h[i].live}

\* C11: when oqsx_key_allocate_keymaterial fails (it returns 1), the buffer it
\* did allocate is released again and privkey and pubkey are both left NULL.
C11_PartialAllocationRolledBack ==
    [][ (KeyCall("allocate_keymaterial") /\ last'.ret = 1)
            => /\ key'.privkey = NULL
               /\ key'.pubkey = NULL
               /\ LiveSlots(heap') \subseteq LiveSlots(heap)
      ]_vars

\* C12: oqsx_key_fromdata given an octet-string public key entry of N bytes (and
\* no private key entry of another type) returns 1 with pubkey a buffer holding
\* exactly those N bytes and pubkeylen = N, whatever the handle advertises; it
\* does otherwise only when an allocation failed.
C12_PublicEntryPopulatesPublicKey ==
    [][ (/\ KeyCall("fromdata")
         /\ last'.arg.pub.type = "octet"
         /\ last'.arg.priv.type # "other")
            => \/ /\ last'.ret = 1
                  /\ key'.pubkey # NULL
                  /\ heap'[key'.pubkey].live
                  /\ heap'[key'.pubkey].data = last'.arg.pub.data
                  /\ key'.pubkeylen = Len(last'.arg.pub.data)
               \/ /\ last'.ret = 0
                  /\ "PROV_MALLOC_FAILURE" \in err'
                  /\ \/ key'.pubkey = NULL
                     \/ (last'.arg.priv.type = "octet" /\ key'.privkey = NULL)
      ]_vars

\* oqsx_key_fromdata just stored a public key whose length is not the one the
\* handle advertises.
C12_Witness ==
    /\ last.op = "fromdata"
    /\ last.ret = 1
    /\ last.arg.pub.type = "octet"
    /\ Len(last.arg.pub.data) > 0
    /\ Len(last.arg.pub.data) # key.handle.length_public_key
    /\ key.pubkeylen = Len(last.arg.pub.data)
    /\ key.pubkey # NULL
    /\ heap[key.pubkey].data = last.arg.pub.data
    /\ nFree = 0

\* The key material a caller can inspect: the pointers, the lengths and the
\* buffers of the allocator.
KeyMaterial == <<key.privkey, key.privkeylen, key.pubkey, key.pubkeylen, heap>>

\* C13: oqsx_key_fromdata given a private or public key entry whose type is not
\* octet string returns 0 and leaves privkey, privkeylen, pubkey, pubkeylen and
\* the buffers as they were, whatever the other entry is.
C13_WrongTypeLeavesKeyMaterial ==
    [][ (/\ KeyCall("fromdata")
         /\ (last'.arg.priv.type = "other" \/ last'.arg.pub.type = "other"))
            => (last'.ret = 0 /\ UNCHANGED KeyMaterial)
      ]_vars

\* C14: oqsx_key_fromdata called with include_private false leaves privkey, its
\* buffer and privkeylen as they were, also when a private key entry is given.
C14_PrivateOnlyWhenPermitted ==
    [][ (KeyCall("fromdata") /\ ~last'.arg.include_private)
            => /\ key'.privkey = key.privkey
               /\ key'.privkeylen = key.privkeylen
               /\ (key.privkey # NULL => heap'[key.privkey] = heap[key.privkey])
      ]_vars

\* C15: when oqsx_key_gen returns OQS_SUCCESS on a KEM key (the call of the
\* primitive being a defined one), privkey and pubkey are buffers of privkeylen
\* and pubkeylen bytes and these lengths are the ones the handle advertises,
\* whatever calls were made on the key before.
C15_GenLeavesAdvertisedLengths ==
    [][ (/\ KeyCall("gen")
         /\ last'.ret = OQS_SUCCESS
         /\ key.iskem
         /\ ~KeypairUndefined(key', heap'))
            => /\ key'.privkeylen = key'.handle.length_secret_key
               /\ key'.pubkeylen = key'.handle.length_public_key
               /\ Len(heap'[key'.privkey].data) = key'.privkeylen
               /\ Len(heap'[key'.pubkey].data) = key'.pubkeylen
      ]_vars

\* C19: when oqsx_key_gen finds a buffer absent and the allocation it makes
\* leaves a buffer absent, it returns an error to its caller: the process does
\* not crash in the primitive and the call does not report success.
C19_GenReportsAllocationFailure ==
    [][ (/\ nOps' = nOps + 1
         /\ last'.op = "gen"
         /\ GenAllocates(key)
         /\ GenAllocates(key'))
            => (~aborted' /\ last'.ret = OQS_ERROR)
      ]_vars

\* C16: no operation terminates the process.  Stated for the states in which
\* the object is live and no release was made, where every call made so far
\* had defined behaviour: the process is running.
C16_NoOperationTerminatesTheProcess ==
    (newRet = "key" /\ objState = "live" /\ relLog = <<>>) => Running

\* C18: after any calls of oqsx_key_new, oqsx_key_allocate_keymaterial,
\* oqsx_key_fromdata and oqsx_key_gen, failed ones included, a non-null pubkey
\* is a live buffer of pubkeylen bytes and a non-null privkey is a live buffer
\* of privkeylen bytes.
C18_BufferSizesMatchLengths ==
    (newRet = "key" /\ nFree = 0)
        => /\ key.pubkey # NULL
                => heap[key.pubkey].live /\ Len(heap[key.pubkey].data) = key.pubkeylen
           /\ key.privkey # NULL
                => heap[key.privkey].live /\ Len(heap[key.privkey].data) = key.privkeylen

\* A failed oqsx_key_fromdata left a private key of a length the handle does not
\* advertise next to a public key buffer.
C18_Witness ==
    /\ nFree = 0
    /\ last.op = "fromdata"
    /\ last.ret = 0
    /\ key.privkey # NULL
    /\ key.pubkey # NULL
    /\ key.privkeylen # key.handle.length_secret_key
    /\ Len(heap[key.privkey].data) = key.privkeylen

\* C20: once the final oqsx_key_free returned, no key buffer is left allocated
\* and none was released twice.
C20_NoBufferOrphaned ==
    (newRet = "key" /\ objState = "freed" /\ Running /\ pc[1] = "idle")
        => (LiveSlots(heap) = {} /\ ~audit.doubleFree)

\* C17: for a KEM or signature key of any claimed level 1..5, oqsx_key_parambits
\* returns 128 + floor((level - 1) / 2) * 64 (128 for level 1, 192 for level 3,
\* 256 for level 5) and changes nothing of the key.
C17_ParamBitsByLevel ==
    [][ (last'.op = "parambits" /\ last.op # "parambits")
            => LET level == key.handle.claimed_nist_level
               IN  /\ level \in Levels
                   /\ last'.ret = 128 + ((level - 1) \div 2) * 64
                   /\ (level = 1 => last'.ret = 128)
                   /\ (level = 3 => last'.ret = 192)
                   /\ (level = 5 => last'.ret = 256)
                   /\ UNCHANGED <<key, objState, heap, allocd, released, relLog>>
      ]_vars

\* oqsx_key_parambits returned 256 for a signature key of level 5 that holds
\* key buffers.
C17_Witness ==
    /\ last.op = "parambits"
    /\ last.ret = 256
    /\ key.handle.claimed_nist_level = 5
    /\ ~key.iskem
    /\ key.privkey # NULL
    /\ key.pubkey # NULL

====
